---- MODULE Spec2Model ----
(***************************************************************************)
(* Per-connection tool-server orchestration of the Chat-Bot backend:       *)
(* MCPClientManager (src/Chat-Bot/mcp_client.py), the module-level server  *)
(* configuration (src/Chat-Bot/mcp_servers_list.py) and the WebSocket      *)
(* handler with its ConnectionManager (src/Chat-Bot/websocket_server.py).  *)
(*                                                                         *)
(* Every action is one run of a coroutine between two suspension points of *)
(* the asyncio event loop: code between two awaits that really suspend is  *)
(* atomic, and actions of different tasks interleave freely.               *)
(***************************************************************************)
EXTENDS Naturals, Integers, Sequences, FiniteSets, TLC

----------------------------------------------------------------------------
(* Bounds *)

\* queries a connection sends
MaxQueries == 2

\* LLM responses that call a tool, over the executions of a connection
MaxLLMCalls == 2

----------------------------------------------------------------------------
(* Names *)

None == "None"

\* live connections; each task of the same name drives that connection
Conns == {"A", "B"}

\* a second task that calls initialize() on the manager of connection "A"
Extra == {"X"}

Tasks == Conns \cup Extra

\* websocket_endpoint: connection_mcp_manager = MCPClientManager()
ManagerOfShared(c) == "A"

ManagerOf(c) == c

Managers == {ManagerOf(c) : c \in Conns}

MgrOfTask(t) == IF t \in Extra THEN ManagerOf("A") ELSE ManagerOf(t)

\* get_standard_mcp_servers(): always loaded
StandardServers == <<"math">>

\* get_special_mcp_servers(): appended in this fixed order when available
SpecialServers == <<"gmail", "sheets", "subagents">>

Servers == {"math", "gmail", "sheets", "subagents"}

Specials == {"gmail", "sheets"}

\* tool names each tool server lists when load_mcp_tools succeeds
ToolsOf(server) ==
  CASE server = "math" -> <<"add">>
    [] server = "gmail" -> <<"send">>
    [] server = "sheets" -> <<"read", "send">>
    [] server = "subagents" -> <<"call_subagent">>

ToolNames == {"add", "send", "read", "call_subagent"}

----------------------------------------------------------------------------
(* State *)

VARIABLES
  \* mcp_servers_list module globals (_gmail_available, ...): the special
  \* servers currently flagged available
  ctxSpecial,
  \* the file middle.json next to mcp_servers_list.py: the connection whose
  \* sub-agent mapping it holds, None when the file is absent
  middle_json,
  \* MCPClientManager fields, one manager per element of Managers
  stack, server_tools, all_tools, sub_agents, agent,
  is_initializing, initialization_lock,
  \* tool-server processes that are running
  procs,
  \* sessions whose client-side tasks a cleanup() call cancelled, each with
  \* the task that called it
  swept,
  \* frame of an initialize() call of a task
  ipc, iargs, icfg, idx, isess, ierr,
  \* frame of a cleanup() / _force_cleanup() call of a task
  cpc,
  \* frame of an execute_agent_with_context() call of a task
  \* (xquery: the contextual query handed to the agent; xstart: the hour
  \* the call began)
  xpc, xagent, xsid, xquery, xstart, xstage, xcall, llmLeft,
  \* ToolUseLogger of each manager: tools_used, tool_activities (tool name
  \* -> activity id, 0 when absent), and whether agent_id/workspace_id are set
  tools_used, tool_activities, logger_ctx,
  \* MongoDB activities collection: activity id -> record
  activities,
  \* conversation_manager.sessions and the wall clock
  sessions, now,
  \* history: every message passed to add_message of each session object;
  \* the sessions removed by the last sweep that removed any, and the
  \* sessions that had an execution in flight then
  appended, lastSweep,
  \* executions each task started so far
  execCount,
  \* history: spawn sets (stacks created) per manager; per initialize() or
  \* cleanup() call whether it waited for the lock, and per initialize() call
  \* whether it spawned or tore a stack down;
  \* sessions that served a tool invocation of each task
  spawnSets, waited, spawned, toreDown, served,
  \* history: what each server of the running initialize() call did
  tried,
  \* remaining calls of each task (llmLeft: remaining LLM responses that
  \* call a tool)
  initLeft, execLeft, cleanLeft,
  \* websocket_endpoint of each connection: its position, why it left the
  \* message loop, whether the client is still connected, the query task
  hpc, hreason, client, qpc,
  \* ConnectionManager.connection_sessions and connection_tasks
  connection_sessions, connection_tasks,
  \* responses the client received for the query being processed
  sent,
  \* history: initialize() succeeded, the handler ran _force_cleanup, the
  \* client left during an execution, how each query ended
  ready, forceRan, discDuring, qlog,
  \* history: whether the token of the connection was verified, and what the
  \* server did on the socket before the message loop
  verified, wire,
  \* remaining queries of each connection
  queriesLeft,
  \* REST request of each task: its position, the request (endpoint and
  \* whether the metadata carries a message_id), how the inner try block was
  \* left, the completion calls scheduled so far
  rpc, rreq, rpath, completions

listVars == <<ctxSpecial, middle_json>>
procVars == <<procs, swept>>
mgrVars == <<stack, server_tools, all_tools, sub_agents, agent,
             is_initializing, initialization_lock>>
initVars == <<ipc, iargs, icfg, idx, isess, ierr>>
histVars == <<spawnSets, waited, spawned, toreDown, tried>>
xframeVars == <<xpc, xagent, xsid, xquery, xstart, xstage, xcall,
                llmLeft>>
loggerVars == <<tools_used, tool_activities, logger_ctx, activities>>
convVars == <<sessions, now, appended, lastSweep>>
execVars == <<xframeVars, loggerVars, convVars, execCount, served>>
budgetVars == <<initLeft, execLeft, cleanLeft>>

coreVars == <<listVars, mgrVars, procVars, initVars, cpc, execVars, histVars,
              budgetVars>>
authVars == <<verified, wire>>
restVars == <<rpc, rreq, rpath, completions>>
connVars == <<hpc, hreason, client, restVars, qpc, connection_sessions,
              connection_tasks, sent, ready, authVars, forceRan, discDuring,
              qlog, queriesLeft>>

vars == <<coreVars, connVars>>

NoStack == [set |-> FALSE, gen |-> 0, sessions |-> <<>>]
NoAgents == [set |-> FALSE, tools |-> <<>>]
NoServerTools == [s \in Servers |-> [loaded |-> FALSE, tools |-> <<>>]]
NoSession == [by |-> None, gen |-> 0, server |-> None]
NoActivities == [n \in ToolNames |-> 0]
NoSweep == [removed |-> {}, inflight |-> {}]

NoConversation == [exists |-> FALSE, messages |-> <<>>, last_activity |-> 0]

RECURSIVE SelectAvailable(_, _)
SelectAvailable(order, avail) ==
  IF order = <<>> THEN <<>>
  ELSE (IF Head(order) \in avail THEN <<Head(order)>> ELSE <<>>)
       \o SelectAvailable(Tail(order), avail)

\* set_subagents_context(subagents_data): middle.json is written with the
\* caller's mapping, or removed when the caller supplies no sub-agent
set_subagents_context(owner, args) ==
  IF "subagents" \in args THEN owner ELSE None

\* get_subagents_mapping(): the mapping middle.json holds when it is read
get_subagents_mapping == middle_json

\* get_mcp_servers(): standard servers followed by the available special
\* ones; the sub-agents server is available when middle.json has a mapping
get_mcp_servers(avail, middle) ==
  StandardServers
    \o SelectAvailable(SpecialServers,
                       avail \cup (IF middle # None THEN {"subagents"} ELSE {}))

Range(s) == {s[i] : i \in 1..Len(s)}

\* tools returned by load_mcp_tools(session): each bound to that session
LoadedTools(sess) ==
  [i \in 1..Len(ToolsOf(sess.server)) |->
     [name |-> ToolsOf(sess.server)[i], session |-> sess]]

InitWith(nInit, nExec, nClean, nQueries, nLLM) ==
  /\ ctxSpecial = {}
  /\ middle_json = None
  /\ stack = [m \in Managers |-> NoStack]
  /\ server_tools = [m \in Managers |-> NoServerTools]
  /\ all_tools = [m \in Managers |-> <<>>]
  /\ sub_agents = [m \in Managers |-> NoAgents]
  /\ agent = [m \in Managers |-> NoAgents]
  /\ is_initializing = [m \in Managers |-> FALSE]
  /\ initialization_lock = [m \in Managers |-> None]
  /\ procs = {}
  /\ swept = {}
  /\ ipc = [t \in Tasks |-> "idle"]
  /\ iargs = [t \in Tasks |-> {}]
  /\ icfg = [t \in Tasks |-> <<>>]
  /\ idx = [t \in Tasks |-> 0]
  /\ isess = [t \in Tasks |-> NoSession]
  /\ ierr = [t \in Tasks |-> None]
  /\ cpc = [t \in Tasks |-> "idle"]
  /\ xpc = [t \in Tasks |-> "idle"]
  /\ xagent = [t \in Tasks |-> NoAgents]
  /\ xsid = [t \in Tasks |-> None]
  /\ xquery = [t \in Tasks |-> <<>>]
  /\ xstart = [t \in Tasks |-> 0]
  /\ xstage = [t \in Tasks |-> None]
  /\ xcall = [t \in Tasks |-> None]
  /\ llmLeft = [t \in Tasks |-> nLLM]
  /\ tools_used = [m \in Managers |-> <<>>]
  /\ tool_activities = [m \in Managers |-> NoActivities]
  /\ logger_ctx = [m \in Managers |-> FALSE]
  /\ activities = <<>>
  /\ sessions = [c \in Conns |-> NoConversation]
  /\ now = 0
  /\ appended = [c \in Conns |-> <<>>]
  /\ lastSweep = NoSweep
  /\ execCount = [t \in Tasks |-> 0]
  /\ served = [t \in Tasks |-> {}]
  /\ spawnSets = [m \in Managers |-> 0]
  /\ waited = [t \in Tasks |-> FALSE]
  /\ spawned = [t \in Tasks |-> 0]
  /\ toreDown = [t \in Tasks |-> FALSE]
  /\ tried = [t \in Tasks |-> <<>>]
  /\ initLeft = [t \in Tasks |-> nInit]
  /\ execLeft = [t \in Tasks |-> nExec]
  /\ cleanLeft = [t \in Tasks |-> nClean]
  /\ hpc = [c \in Conns |-> "idle"]
  /\ hreason = [c \in Conns |-> None]
  /\ client = [c \in Conns |-> TRUE]
  /\ qpc = [c \in Conns |-> "none"]
  /\ connection_sessions = {}
  /\ connection_tasks = {}
  /\ sent = [c \in Conns |-> {}]
  /\ ready = [c \in Conns |-> FALSE]
  /\ verified = [c \in Conns |-> None]
  /\ wire = [c \in Conns |-> <<>>]
  /\ forceRan = [c \in Conns |-> FALSE]
  /\ discDuring = [c \in Conns |-> FALSE]
  /\ qlog = [c \in Conns |-> <<>>]
  /\ queriesLeft = [c \in Conns |-> nQueries]
  /\ rpc = [c \in Conns |-> "idle"]
  /\ rreq = [c \in Conns |-> None]
  /\ rpath = [c \in Conns |-> None]
  /\ completions = [c \in Conns |-> <<>>]

----------------------------------------------------------------------------
(* MCPClientManager.initialize *)

\* outcomes of closing the subprocess stack under asyncio.wait_for
TeardownOutcomes == {"closed", "timeout", "error"}

\* processes left running after stack.__aexit__ ended with the outcome
ProcsAfterClose(m, outcome) ==
  IF outcome = "closed" THEN procs \ Range(stack[m].sessions) ELSE procs

\* _force_cleanup, lines 656-661: self.stack after the wait for
\* stack.__aexit__ ended, without the finally clause
StackAfterCloseNoFinally(st, outcome) ==
  IF outcome = "closed" THEN NoStack ELSE st

\* _force_cleanup, lines 656-661: finally: self.stack = None
StackAfterClose(st, outcome) == NoStack

\* the session can serve a request: its process runs and its client-side
\* tasks were not cancelled
Serving(sess) == sess \in procs /\ \A e \in swept : e.sess # sess

\* tasks queued on the manager's asyncio.Lock (FIFO: a free lock with waiters
\* is handed to the waiter, not to a newcomer)
LockWaiters(m) ==
  {t \in Tasks : MgrOfTask(t) = m /\ (ipc[t] = "wait_lock" \/ cpc[t] = "cleanup_wait_lock")}

LockFree(m) == initialization_lock[m] = None /\ LockWaiters(m) = {}

AtRest(t) ==
  /\ ipc[t] \in {"idle", "returned", "raised", "skipped", "cancelled"}
  /\ cpc[t] = "idle"
  /\ xpc[t] \in {"idle", "returned", "timeout", "error", "cancelled"}

\* initialize(), lines 390-580: reset the state, set the module-level
\* contexts from the arguments, create the stack, read the server list
Setup(t, m, args) ==
  /\ server_tools' = [server_tools EXCEPT ![m] = NoServerTools]
  /\ all_tools' = [all_tools EXCEPT ![m] = <<>>]
  /\ sub_agents' = [sub_agents EXCEPT ![m] = NoAgents]
  /\ agent' = [agent EXCEPT ![m] = NoAgents]
  /\ ctxSpecial' = args \cap Specials
  /\ middle_json' = set_subagents_context(m, args)
  /\ stack' = [stack EXCEPT ![m] = [set |-> TRUE, gen |-> spawnSets[m] + 1,
                                    sessions |-> <<>>]]
  /\ spawnSets' = [spawnSets EXCEPT ![m] = @ + 1]
  /\ spawned' = [spawned EXCEPT ![t] = @ + 1]
  /\ tried' = [tried EXCEPT ![t] = <<>>]
  /\ icfg' = [icfg EXCEPT ![t] = get_mcp_servers(ctxSpecial', middle_json')]
  /\ idx' = [idx EXCEPT ![t] = 1]
  /\ ipc' = [ipc EXCEPT ![t] = "connect"]

\* initialize(), lines 378-388: the body run once the lock is held, up to
\* the first suspension
EnterLocked(t, m, args) ==
  IF is_initializing[m]
  THEN /\ ipc' = [ipc EXCEPT ![t] = "skipped"]
       /\ UNCHANGED <<listVars, mgrVars, spawnSets, spawned, tried, icfg, idx>>
  ELSE /\ is_initializing' = [is_initializing EXCEPT ![m] = TRUE]
       /\ initialization_lock' = [initialization_lock EXCEPT ![m] = t]
       /\ IF stack[m].set
          THEN /\ ipc' = [ipc EXCEPT ![t] = "pre_cleanup"]
               /\ UNCHANGED <<listVars, stack, server_tools, all_tools,
                              sub_agents, agent, spawnSets, spawned, tried,
                              icfg, idx>>
          ELSE Setup(t, m, args)

\* initialize(...) is entered with the given special servers enabled
EnterInitialize(t, args) ==
  LET m == MgrOfTask(t) IN
  /\ AtRest(t)
  /\ initLeft[t] > 0
  /\ initLeft' = [initLeft EXCEPT ![t] = @ - 1]
  /\ iargs' = [iargs EXCEPT ![t] = args]
  /\ ierr' = [ierr EXCEPT ![t] = None]
  /\ toreDown' = [toreDown EXCEPT ![t] = FALSE]
  /\ IF LockFree(m)
     THEN /\ waited' = [waited EXCEPT ![t] = FALSE]
          /\ EnterLocked(t, m, args)
     ELSE /\ waited' = [waited EXCEPT ![t] = TRUE]
          /\ ipc' = [ipc EXCEPT ![t] = "wait_lock"]
          /\ UNCHANGED <<listVars, mgrVars, spawnSets, spawned, tried, icfg,
                         idx>>
  /\ UNCHANGED <<procVars, isess, cpc, execVars, execLeft, cleanLeft>>

\* a task calls initialize(...)
CallInitialize(t, args) == EnterInitialize(t, args) /\ UNCHANGED connVars

\* async with self._initialization_lock: the waiter gets the lock
AcquireLock(t) ==
  LET m == MgrOfTask(t) IN
  /\ ipc[t] = "wait_lock"
  /\ initialization_lock[m] = None
  /\ EnterLocked(t, m, iargs[t])
  /\ UNCHANGED <<procVars, iargs, isess, ierr, cpc, execVars, waited, toreDown,
                 budgetVars>>
  /\ UNCHANGED connVars

\* await self._force_cleanup() at line 388 returns
PreCleanupDone(t, outcome) ==
  LET m == MgrOfTask(t) IN
  /\ ipc[t] = "pre_cleanup"
  /\ procs' = ProcsAfterClose(m, outcome)
  /\ UNCHANGED swept
  /\ toreDown' = [toreDown EXCEPT ![t] = TRUE]
  /\ Setup(t, m, iargs[t])
  /\ UNCHANGED <<is_initializing, initialization_lock, iargs, isess, ierr,
                 cpc, execVars, waited, budgetVars>>
  /\ UNCHANGED connVars

\* outcomes of building the LLM and the agents, lines 617-636
BuildOutcomes == {"ok", "sub_agents_error", "agent_error"}

AgentsOver(tools) == [set |-> TRUE, tools |-> tools]

\* line 613: if not self.all_tools
NoToolsLoadedNever(tools) == FALSE

NoToolsLoaded(tools) == tools = <<>>

\* the code after one server of the loop is done: next server, or lines
\* 613-648 when the loop is over
Advance(t, m, tools2) ==
  /\ isess' = [isess EXCEPT ![t] = NoSession]
  /\ IF idx[t] < Len(icfg[t])
     THEN /\ idx' = [idx EXCEPT ![t] = @ + 1]
          /\ ipc' = [ipc EXCEPT ![t] = "connect"]
          /\ UNCHANGED <<sub_agents, agent, is_initializing,
                         initialization_lock, ierr>>
     ELSE \E build \in BuildOutcomes :
          /\ idx' = [idx EXCEPT ![t] = 0]
          /\ IF ~NoToolsLoaded(tools2) /\ build = "ok"
             THEN /\ sub_agents' = [sub_agents EXCEPT ![m] = AgentsOver(tools2)]
                  /\ agent' = [agent EXCEPT ![m] = AgentsOver(tools2)]
                  /\ is_initializing' = [is_initializing EXCEPT ![m] = FALSE]
                  /\ initialization_lock' =
                       [initialization_lock EXCEPT ![m] = None]
                  /\ ipc' = [ipc EXCEPT ![t] = "returned"]
                  /\ ierr' = ierr
             ELSE /\ ierr' = [ierr EXCEPT ![t] =
                                IF NoToolsLoaded(tools2) THEN "no_tools"
                                ELSE build]
                  /\ sub_agents' = [sub_agents EXCEPT ![m] =
                                      IF ~NoToolsLoaded(tools2)
                                         /\ build = "agent_error"
                                      THEN AgentsOver(tools2) ELSE @]
                  /\ agent' = agent
                  /\ IF stack[m].set
                     THEN /\ ipc' = [ipc EXCEPT ![t] = "fail_cleanup"]
                          /\ UNCHANGED <<is_initializing, initialization_lock>>
                     ELSE /\ ipc' = [ipc EXCEPT ![t] = "raised"]
                          /\ is_initializing' =
                               [is_initializing EXCEPT ![m] = FALSE]
                          /\ initialization_lock' =
                               [initialization_lock EXCEPT ![m] = None]

ConnectOutcomes == {"spawn_fail", "handshake_fail", "ok"}

\* lines 588-600: spawn the server process, open the session, handshake
Connect(t, outcome) ==
  LET m == MgrOfTask(t)
      server == icfg[t][idx[t]]
      sess == [by |-> t, gen |-> stack[m].gen, server |-> server]
      failed == outcome # "ok" \/ ~stack[m].set
  IN
  /\ ipc[t] = "connect"
  /\ tried' = IF failed
              THEN [tried EXCEPT ![t] = Append(@, [server |-> server,
                      outcome |-> IF stack[m].set THEN outcome ELSE "spawn_fail"])]
              ELSE tried
  /\ IF outcome = "spawn_fail" \/ ~stack[m].set
     THEN /\ Advance(t, m, all_tools[m])
          /\ UNCHANGED <<stack, procVars>>
     ELSE /\ stack' = [stack EXCEPT ![m].sessions = Append(@, sess)]
          /\ procs' = procs \cup {sess}
          /\ UNCHANGED swept
          /\ IF outcome = "handshake_fail"
             THEN Advance(t, m, all_tools[m])
             ELSE /\ isess' = [isess EXCEPT ![t] = sess]
                  /\ ipc' = [ipc EXCEPT ![t] = "load"]
                  /\ UNCHANGED <<idx, sub_agents, agent, is_initializing,
                                 initialization_lock, ierr>>
  /\ UNCHANGED <<listVars, server_tools, all_tools, iargs, icfg, cpc,
                 execVars, spawnSets, waited, spawned, toreDown, budgetVars>>
  /\ UNCHANGED connVars

\* load_mcp_tools raises, lists no tool, or lists the server's tools
LoadOutcomes == {"load_fail", "empty", "ok"}

\* line 609: self.all_tools.extend(tools)
ExtendReplace(all, tools) == tools

Extend(all, tools) == all \o tools

\* lines 602-611: load_mcp_tools(session)
Load(t, outcome) ==
  LET m == MgrOfTask(t)
      tools == IF outcome = "ok" THEN LoadedTools(isess[t]) ELSE <<>>
      tools2 == IF outcome # "load_fail" THEN Extend(all_tools[m], tools)
                ELSE all_tools[m]
  IN
  /\ ipc[t] = "load"
  /\ outcome = "ok" => Serving(isess[t])
  /\ tried' = [tried EXCEPT ![t] = Append(@, [server |-> isess[t].server,
                                              outcome |-> outcome])]
  /\ server_tools' = IF outcome # "load_fail"
                     THEN [server_tools EXCEPT ![m][isess[t].server] =
                             [loaded |-> TRUE, tools |-> tools]]
                     ELSE server_tools
  /\ all_tools' = [all_tools EXCEPT ![m] = tools2]
  /\ Advance(t, m, tools2)
  /\ UNCHANGED <<listVars, stack, procVars, iargs, icfg, cpc, execVars,
                 spawnSets, waited, spawned, toreDown, budgetVars>>
  /\ UNCHANGED connVars

\* lines 640-648: await self._force_cleanup() returns, the exception is
\* re-raised, the flag is cleared and the lock released
FailCleanupDone(t, outcome) ==
  LET m == MgrOfTask(t) IN
  /\ ipc[t] = "fail_cleanup"
  /\ procs' = ProcsAfterClose(m, outcome)
  /\ UNCHANGED swept
  /\ stack' = [stack EXCEPT ![m] = StackAfterClose(@, outcome)]
  /\ is_initializing' = [is_initializing EXCEPT ![m] = FALSE]
  /\ initialization_lock' = [initialization_lock EXCEPT ![m] = None]
  /\ ipc' = [ipc EXCEPT ![t] = "raised"]
  /\ UNCHANGED <<listVars, server_tools, all_tools, sub_agents, agent,
                 iargs, icfg, idx, isess, ierr, cpc, execVars, histVars,
                 budgetVars>>
  /\ UNCHANGED connVars

\* the task is cancelled inside initialize(): the CancelledError passes
\* every `except Exception` and leaves through the finally clauses around
\* the await it hit. At line 388 that is the finally of _force_cleanup only
\* (the stack is dropped, its subprocesses closed or not); in the server
\* loop the finally of line 643; in the _force_cleanup of line 641 both.
\* The lock is released by the async with
CancelInitialize(t, outcome) ==
  LET m == MgrOfTask(t) IN
  /\ ipc[t] \in {"pre_cleanup", "connect", "load", "fail_cleanup"}
  /\ IF ipc[t] \in {"pre_cleanup", "fail_cleanup"}
     THEN /\ procs' = ProcsAfterClose(m, outcome)
          /\ stack' = [stack EXCEPT ![m] = StackAfterClose(@, outcome)]
     ELSE UNCHANGED <<procs, stack>>
  /\ is_initializing' = [is_initializing EXCEPT ![m] =
                           IF ipc[t] = "pre_cleanup" THEN @ ELSE FALSE]
  /\ initialization_lock' = [initialization_lock EXCEPT ![m] = None]
  /\ ipc' = [ipc EXCEPT ![t] = "cancelled"]
  /\ UNCHANGED <<listVars, swept, server_tools, all_tools, sub_agents, agent,
                 iargs, icfg, idx, isess, ierr, cpc, execVars, histVars,
                 budgetVars>>
  /\ UNCHANGED connVars

InitializeSteps(t) ==
  \/ AcquireLock(t)
  \/ \E o \in TeardownOutcomes : PreCleanupDone(t, o)
  \/ \E o \in ConnectOutcomes : Connect(t, o)
  \/ \E o \in LoadOutcomes : Load(t, o)
  \/ \E o \in TeardownOutcomes : FailCleanupDone(t, o)

----------------------------------------------------------------------------
(* MCPClientManager._force_cleanup and cleanup *)

MAX_CONVERSATION_MESSAGES == 10
CONVERSATION_CLEANUP_HOURS == 24

\* ConversationSession.is_expired, with the clock in hours
is_expired_no_ttl(sess) == now - sess.last_activity >= 0

is_expired(sess) == now - sess.last_activity > CONVERSATION_CLEANUP_HOURS

\* session ids of the executions in flight
InFlight == {xsid[t] : t \in {u \in Tasks : xpc[u] = "running"}} \ {None}

\* ConversationManager.cleanup_expired_sessions
cleanup_expired_sessions(ss) ==
  [c \in DOMAIN ss |->
     IF ss[c].exists /\ is_expired(ss[c]) THEN NoConversation ELSE ss[c]]

\* _force_cleanup, lines 652-655: with a stack, wait for it to close
ForceCleanupBegin(t, m) ==
  cpc' = [cpc EXCEPT ![t] = IF stack[m].set THEN "force_closing" ELSE "idle"]

\* a task calls manager._force_cleanup() directly (no lock)
CallForceCleanup(t) ==
  LET m == MgrOfTask(t) IN
  /\ AtRest(t)
  /\ cleanLeft[t] > 0
  /\ cleanLeft' = [cleanLeft EXCEPT ![t] = @ - 1]
  /\ ForceCleanupBegin(t, m)
  /\ UNCHANGED <<listVars, mgrVars, procVars, initVars, execVars, histVars,
                 initLeft, execLeft>>
  /\ UNCHANGED connVars

\* _force_cleanup, lines 655-661: closing ended; the stack is dropped
ForceCleanupDone(t, outcome) ==
  LET m == MgrOfTask(t) IN
  /\ cpc[t] = "force_closing"
  /\ procs' = ProcsAfterClose(m, outcome)
  /\ UNCHANGED swept
  /\ stack' = [stack EXCEPT ![m] = StackAfterClose(@, outcome)]
  /\ cpc' = [cpc EXCEPT ![t] = "idle"]
  /\ UNCHANGED <<listVars, server_tools, all_tools, sub_agents, agent,
                 is_initializing, initialization_lock, initVars, execVars,
                 histVars, budgetVars>>
  /\ UNCHANGED connVars

\* sessions whose contexts are open on the stack of some manager of the
\* process: each has client-side tasks in the event loop
LiveSessions == UNION {Range(stack[m].sessions) : m \in Managers}

\* cleanup, lines 667-678: every task of the event loop other than the
\* current one whose name contains 'mcp' is cancelled. The tasks this
\* program creates are unnamed; the tasks of the sessions are created and
\* named by the client library, all alike: named tells whether their name
\* contains 'mcp'
CancelTasks(t, named) ==
  swept' = IF named
           THEN swept \cup {[sess |-> s, by |-> t] :
                              s \in {l \in LiveSessions :
                                       \A e \in swept : e.sess # l}}
           ELSE swept

\* a task calls manager.cleanup(): take the lock or queue on it
CallCleanup(t) ==
  LET m == MgrOfTask(t) IN
  /\ AtRest(t)
  /\ cleanLeft[t] > 0
  /\ cleanLeft' = [cleanLeft EXCEPT ![t] = @ - 1]
  /\ waited' = [waited EXCEPT ![t] = ~LockFree(m)]
  /\ IF LockFree(m)
     THEN /\ initialization_lock' = [initialization_lock EXCEPT ![m] = t]
          /\ \E named \in BOOLEAN : CancelTasks(t, named)
          /\ cpc' = [cpc EXCEPT ![t] = "cleanup_sleep"]
     ELSE /\ cpc' = [cpc EXCEPT ![t] = "cleanup_wait_lock"]
          /\ UNCHANGED <<initialization_lock, swept>>
  /\ UNCHANGED <<listVars, stack, server_tools, all_tools, sub_agents, agent,
                 is_initializing, procs, initVars, execVars, spawnSets,
                 spawned, toreDown, tried, initLeft, execLeft>>
  /\ UNCHANGED connVars

CleanupAcquire(t) ==
  LET m == MgrOfTask(t) IN
  /\ cpc[t] = "cleanup_wait_lock"
  /\ initialization_lock[m] = None
  /\ initialization_lock' = [initialization_lock EXCEPT ![m] = t]
  /\ \E named \in BOOLEAN : CancelTasks(t, named)
  /\ cpc' = [cpc EXCEPT ![t] = "cleanup_sleep"]
  /\ UNCHANGED <<listVars, stack, server_tools, all_tools, sub_agents, agent,
                 is_initializing, procs, initVars, execVars, histVars,
                 budgetVars>>
  /\ UNCHANGED connVars

\* cleanup, lines 686-696: reset the state, release the lock, sweep the
\* expired conversation sessions
CleanupReset(t, m) ==
  /\ server_tools' = [server_tools EXCEPT ![m] = NoServerTools]
  /\ all_tools' = [all_tools EXCEPT ![m] = <<>>]
  /\ sub_agents' = [sub_agents EXCEPT ![m] = NoAgents]
  /\ agent' = [agent EXCEPT ![m] = NoAgents]
  /\ initialization_lock' = [initialization_lock EXCEPT ![m] = None]
  /\ sessions' = cleanup_expired_sessions(sessions)
  /\ appended' = [c \in Conns |-> IF sessions'[c].exists THEN appended[c]
                                   ELSE <<>>]
  /\ LET removed == {c \in Conns : sessions[c].exists
                                      /\ ~sessions'[c].exists}
     IN lastSweep' = IF removed = {} THEN lastSweep
                     ELSE [removed |-> removed, inflight |-> InFlight]
  /\ cpc' = [cpc EXCEPT ![t] = "idle"]

\* cleanup, lines 678-684: asyncio.sleep(0.1) returns and _force_cleanup
\* starts
CleanupSlept(t) ==
  LET m == MgrOfTask(t) IN
  /\ cpc[t] = "cleanup_sleep"
  /\ IF stack[m].set
     THEN /\ cpc' = [cpc EXCEPT ![t] = "cleanup_closing"]
          /\ UNCHANGED <<server_tools, all_tools, sub_agents, agent,
                         initialization_lock, sessions, appended,
                         lastSweep>>
     ELSE CleanupReset(t, m)
  /\ UNCHANGED <<listVars, stack, is_initializing, procVars, initVars,
                 xframeVars, loggerVars, now, execCount, served, histVars,
                 budgetVars>>
  /\ UNCHANGED connVars

CleanupClosed(t, outcome) ==
  LET m == MgrOfTask(t) IN
  /\ cpc[t] = "cleanup_closing"
  /\ procs' = ProcsAfterClose(m, outcome)
  /\ UNCHANGED swept
  /\ stack' = [stack EXCEPT ![m] = StackAfterClose(@, outcome)]
  /\ CleanupReset(t, m)
  /\ UNCHANGED <<listVars, is_initializing, initVars, xframeVars,
                 loggerVars, now, execCount, served, histVars, budgetVars>>
  /\ UNCHANGED connVars

----------------------------------------------------------------------------
(* ToolUseLogger *)

LoggerState(m) ==
  [acts |-> activities, ta |-> tool_activities[m], used |-> tools_used[m]]

\* on_llm_end for one named call: self.tools_used, _create_tool_activity
RECURSIVE LogCalls(_, _, _, _)
LogCalls(names, st, track, ex) ==
  IF names = <<>> THEN st
  ELSE LET n == Head(names)
           used2 == IF n \in Range(st.used) THEN st.used ELSE Append(st.used, n)
           acts2 == IF track
                    THEN Append(st.acts, [exec |-> ex, tool |-> n,
                                          status |-> "running", reason |-> None,
                                          updates |-> 0])
                    ELSE st.acts
           ta2 == IF track THEN [st.ta EXCEPT ![n] = Len(acts2)] ELSE st.ta
       IN LogCalls(Tail(names), [acts |-> acts2, ta |-> ta2, used |-> used2],
                   track, ex)

\* the calls on_llm_end finds in a response: function_call, then tool_calls
CallsOf(resp) ==
  (IF resp.function_call # None THEN <<resp.function_call>> ELSE <<>>)
  \o resp.tool_calls

on_llm_end(st, resp, track, ex) == LogCalls(CallsOf(resp), st, track, ex)

Resolve(act, status, reason) ==
  [act EXCEPT !.status = status, !.reason = reason, !.updates = @ + 1]

\* ToolUseLogger.update_tool_activity
update_tool_activity(st, name, status, reason) ==
  IF st.ta[name] = 0 THEN st
  ELSE [st EXCEPT !.acts[st.ta[name]] = Resolve(@, status, reason),
                  !.ta[name] = 0]

\* on_tool_end / on_tool_error: the tool name is taken from the keyword
\* arguments of the callback, None when they carry no name
on_tool_callback(st, kwname, status, reason) ==
  IF kwname # None /\ st.ta[kwname] # 0
  THEN update_tool_activity(st, kwname, status, reason)
  ELSE st

\* MCPClientManager._update_pending_tool_activities
update_pending_tool_activities(st, status, reason) ==
  [st EXCEPT
     !.acts = [i \in DOMAIN st.acts |->
                 IF \E n \in ToolNames : st.ta[n] = i
                 THEN Resolve(st.acts[i], status, reason) ELSE st.acts[i]],
     !.ta = NoActivities]

SetLogger(m, st) ==
  /\ activities' = st.acts
  /\ tool_activities' = [tool_activities EXCEPT ![m] = st.ta]
  /\ tools_used' = [tools_used EXCEPT ![m] = st.used]

----------------------------------------------------------------------------
(* MCPClientManager.execute_agent_with_context *)

\* seq[-k:]
LastKHead(seq, k) ==
  IF Len(seq) > k THEN SubSeq(seq, 1, k) ELSE seq

LastK(seq, k) ==
  IF Len(seq) > k THEN SubSeq(seq, Len(seq) - k + 1, Len(seq)) ELSE seq

\* ConversationManager.get_or_create_session
get_or_create_session(sid) ==
  IF sessions[sid].exists THEN sessions[sid]
  ELSE [exists |-> TRUE, messages |-> <<>>, last_activity |-> now]

ConversationMessage(role, content, agent_type) ==
  [role |-> role, content |-> content, agent_type |-> agent_type]

\* ConversationSession.add_message
add_message(sess, role, content, agent_type) ==
  [sess EXCEPT
     !.messages = LastK(Append(@, ConversationMessage(role, content,
                                                      agent_type)),
                        MAX_CONVERSATION_MESSAGES),
     !.last_activity = now]

\* the history of the add_message calls on the session object of the id
Recorded(sid, msg) ==
  [appended EXCEPT ![sid] =
     Append(IF sessions[sid].exists THEN @ ELSE <<>>, msg)]

\* one line of the context: the pieces of the f-string of a message
ContextLine(msg) ==
  IF msg.role = "user" THEN <<"User: ", msg.content>>
  ELSE IF msg.agent_type # None
       THEN <<"Assistant", " (", msg.agent_type, " agent)", ": ",
              msg.content>>
       ELSE <<"Assistant", ": ", msg.content>>

\* ConversationSession.get_context_string: the lines that "\n" joins, the
\* empty sequence for the empty string
get_context_string(sess) ==
  IF sess.messages = <<>> THEN <<>>
  ELSE LET last == LastK(sess.messages, MAX_CONVERSATION_MESSAGES) IN
       << <<"Previous conversation context:">> >>
         \o [i \in 1..Len(last) |-> ContextLine(last[i])]
         \o << <<"---">> >>

\* lines 739-745: the query the agent receives, as lines
contextual_query(context, query) ==
  IF context # <<>>
  THEN context \o << <<"">>, <<"Current user message: ", query>> >>
  ELSE << <<query>> >>

\* lines 700-750: reset the logger, set its context, append the user
\* message, start the agent under asyncio.wait_for
ExecBegin(t, m, ag, query, sid, track) ==
  /\ tools_used' = [tools_used EXCEPT ![m] = <<>>]
  /\ tool_activities' = [tool_activities EXCEPT ![m] = NoActivities]
  /\ logger_ctx' = [logger_ctx EXCEPT ![m] = IF track THEN TRUE ELSE @]
  /\ sessions' = IF sid = None THEN sessions
                 ELSE [sessions EXCEPT ![sid] =
                         add_message(get_or_create_session(sid), "user",
                                     query, None)]
  /\ appended' = IF sid = None THEN appended
                 ELSE Recorded(sid, ConversationMessage("user", query, None))
  /\ UNCHANGED lastSweep
  /\ xquery' = [xquery EXCEPT ![t] =
                  IF sid = None THEN contextual_query(<<>>, query)
                  ELSE contextual_query(get_context_string(sessions'[sid]),
                                        query)]
  /\ xpc' = [xpc EXCEPT ![t] = "running"]
  /\ xstage' = [xstage EXCEPT ![t] = "llm"]
  /\ xagent' = [xagent EXCEPT ![t] = ag]
  /\ execCount' = [execCount EXCEPT ![t] = @ + 1]
  /\ xsid' = [xsid EXCEPT ![t] = sid]
  /\ xstart' = [xstart EXCEPT ![t] = now]
  /\ xcall' = [xcall EXCEPT ![t] = None]
  /\ UNCHANGED <<activities, now, llmLeft>>

\* a task calls execute_agent_with_context with the manager's user agent
CallExecute(t, query, sid, track) ==
  LET m == MgrOfTask(t) IN
  /\ AtRest(t)
  /\ execLeft[t] > 0
  /\ sub_agents[m].set
  /\ execLeft' = [execLeft EXCEPT ![t] = @ - 1]
  /\ ExecBegin(t, m, sub_agents[m], query, sid, track)
  /\ UNCHANGED <<listVars, mgrVars, procVars, initVars, cpc, served, histVars,
                 initLeft, cleanLeft>>
  /\ UNCHANGED connVars

\* the execution a task is running: the task and its ordinal
ExecId(t) == [task |-> t, n |-> execCount[t]]

AgentToolNames(ag) == {ag.tools[i].name : i \in 1..Len(ag.tools)}

\* responses of the LLM: a function_call and/or a list of tool_calls
LLMResponses(names) ==
  {[function_call |-> fc, tool_calls |-> tcs] :
     fc \in names \cup {None}, tcs \in {<<>>} \cup {<<n>> : n \in names}}

\* the agent executor resolves a tool name through a name -> tool map built
\* over the tool list: the last tool of that name
ToolByName(ag, name) ==
  LET i == CHOOSE j \in 1..Len(ag.tools) :
             /\ ag.tools[j].name = name
             /\ \A k \in (j + 1)..Len(ag.tools) : ag.tools[k].name # name
  IN ag.tools[i]

\* the LLM answers with a function call: on_llm_end, then the tool starts
LLMCall(t, resp) ==
  LET m == MgrOfTask(t) IN
  /\ xpc[t] = "running"
  /\ xstage[t] = "llm"
  /\ llmLeft[t] > 0
  /\ resp.function_call # None
  /\ llmLeft' = [llmLeft EXCEPT ![t] = @ - 1]
  /\ SetLogger(m, on_llm_end(LoggerState(m), resp, logger_ctx[m], ExecId(t)))
  /\ xcall' = [xcall EXCEPT ![t] = resp.function_call]
  /\ xstage' = [xstage EXCEPT ![t] = "tool"]
  /\ UNCHANGED <<listVars, mgrVars, procVars, initVars, cpc, xpc, xagent,
                 xsid, xquery, xstart, logger_ctx, convVars, execCount, served,
                 histVars, budgetVars>>
  /\ UNCHANGED connVars

EndFrame(t, result) ==
  /\ xpc' = [xpc EXCEPT ![t] = result]
  /\ xstage' = [xstage EXCEPT ![t] = None]
  /\ xcall' = [xcall EXCEPT ![t] = None]
  /\ xagent' = [xagent EXCEPT ![t] = NoAgents]
  /\ UNCHANGED <<xsid, xquery, xstart, llmLeft>>

\* the tool invocation ends, served by the session the tool is bound to.
\* ok: on_tool_end, the tool name taken from the keyword arguments (None
\* when they name no tracked tool), and the agent goes on; otherwise
\* on_tool_error, which gets no name, and the exception leaves the agent:
\* lines 760-763
ToolDone(t, ok, kwname) ==
  LET m == MgrOfTask(t)
      tool == ToolByName(xagent[t], xcall[t])
      st1 == on_tool_callback(LoggerState(m), IF ok THEN kwname ELSE None,
                              IF ok THEN "completed" ELSE "failed",
                              IF ok THEN "output" ELSE "tool error")
  IN
  /\ xpc[t] = "running"
  /\ xstage[t] = "tool"
  /\ ok => Serving(tool.session)
  /\ ~ok => kwname = None
  /\ served' = [served EXCEPT ![t] = @ \cup {tool.session}]
  /\ IF ok
     THEN /\ SetLogger(m, st1)
          /\ xcall' = [xcall EXCEPT ![t] = None]
          /\ xstage' = [xstage EXCEPT ![t] = "llm"]
          /\ UNCHANGED <<xpc, xagent, xsid, xquery, xstart, llmLeft>>
     ELSE /\ SetLogger(m, update_pending_tool_activities(st1, "failed",
                                                         "exception"))
          /\ EndFrame(t, "error")
  /\ UNCHANGED <<listVars, mgrVars, procVars, initVars, cpc, logger_ctx,
                 convVars, execCount, histVars, budgetVars>>
  /\ UNCHANGED connVars

\* the LLM gives its final answer and the agent returns; lines 765-818
LLMFinal(t, resp) ==
  LET m == MgrOfTask(t)
      st1 == on_llm_end(LoggerState(m), resp, logger_ctx[m], ExecId(t))
  IN
  /\ xpc[t] = "running"
  /\ xstage[t] = "llm"
  /\ resp.function_call = None
  /\ SetLogger(m, update_pending_tool_activities(st1, "completed", "answer"))
  /\ sessions' = IF xsid[t] = None THEN sessions
                 ELSE [sessions EXCEPT ![xsid[t]] =
                         add_message(get_or_create_session(xsid[t]),
                                     "assistant", "answer", "user_agent")]
  /\ appended' = IF xsid[t] = None THEN appended
                 ELSE Recorded(xsid[t],
                               ConversationMessage("assistant", "answer",
                                                   "user_agent"))
  /\ UNCHANGED lastSweep
  /\ EndFrame(t, "returned")
  /\ UNCHANGED <<listVars, mgrVars, procVars, initVars, cpc, logger_ctx, now,
                 execCount, served, histVars, budgetVars>>
  /\ UNCHANGED connVars

\* lines 751-754: asyncio.wait_for timed out and cancelled the agent call
ExecTimeout(t) ==
  LET m == MgrOfTask(t) IN
  /\ xpc[t] = "running"
  /\ SetLogger(m, update_pending_tool_activities(LoggerState(m), "failed",
                                                 "Execution timeout"))
  /\ EndFrame(t, "timeout")
  /\ UNCHANGED <<listVars, mgrVars, procVars, initVars, cpc, logger_ctx,
                 convVars, execCount, served, histVars, budgetVars>>
  /\ UNCHANGED connVars

\* lines 760-763: the agent call raised
ExecError(t) ==
  LET m == MgrOfTask(t) IN
  /\ xpc[t] = "running"
  /\ SetLogger(m, update_pending_tool_activities(LoggerState(m), "failed",
                                                 "exception"))
  /\ EndFrame(t, "error")
  /\ UNCHANGED <<listVars, mgrVars, procVars, initVars, cpc, logger_ctx,
                 convVars, execCount, served, histVars, budgetVars>>
  /\ UNCHANGED connVars

\* lines 755-759: the task is cancelled while the agent call is in flight;
\* the CancelledError is the next thing the suspended task sees
ExecCancelled(t) ==
  LET m == MgrOfTask(t) IN
  /\ xpc[t] = "running"
  /\ SetLogger(m, update_pending_tool_activities(LoggerState(m), "failed",
                                                 "Execution cancelled"))
  /\ EndFrame(t, "cancelled")
  /\ UNCHANGED <<listVars, mgrVars, procVars, initVars, cpc, logger_ctx,
                 convVars, execCount, served, histVars, budgetVars>>

----------------------------------------------------------------------------
(* websocket_endpoint, process_query_with_streaming, ConnectionManager *)

\* StreamingCallbackHandler.send_message: delivered while the client is
\* connected, dropped silently otherwise
Deliver(c, kinds) == IF client[c] THEN sent[c] \cup kinds ELSE sent[c]

\* the query task has not finished
TaskNeverLive(c) == FALSE

TaskLive(c) == qpc[c] \in {"created", "running"}

\* ConnectionManager.disconnect: drop the session mapping and, when a task
\* is registered for the session, cancel it unless done and drop it
disconnect(c) ==
  /\ connection_sessions' = connection_sessions \ {c}
  /\ connection_tasks' = IF c \in connection_sessions
                         THEN connection_tasks \ {c} ELSE connection_tasks
  /\ qpc' = IF c \in connection_sessions /\ c \in connection_tasks
               /\ TaskLive(c)
            THEN [qpc EXCEPT ![c] = "cancelled"] ELSE qpc

\* lines 1265-1294: the except branches after the message loop: disconnect,
\* then _force_cleanup under asyncio.wait_for
LeaveLoop(c, reason) ==
  /\ disconnect(c)
  /\ ForceCleanupBegin(c, ManagerOf(c))
  /\ forceRan' = [forceRan EXCEPT ![c] = TRUE]
  /\ hreason' = [hreason EXCEPT ![c] = reason]
  /\ hpc' = [hpc EXCEPT ![c] = "closing"]

\* line 1134: connection_manager.connect() comes after the three branches
\* that return on a missing or rejected token
ConnectsAlways(authOK) == TRUE

ConnectsWhen(authOK) == authOK

\* lines 1083-1215: the token is checked; on success the connection is
\* registered, a manager is created and initialize() is called
HandlerStart(c, authOK, args) ==
  /\ hpc[c] = "idle"
  /\ rpc[c] = "idle"
  /\ verified' = [verified EXCEPT ![c] = IF authOK THEN "verified"
                                         ELSE "rejected"]
  /\ connection_sessions' = IF ConnectsWhen(authOK)
                            THEN connection_sessions \cup {c}
                            ELSE connection_sessions
  /\ IF authOK
     THEN /\ wire' = [wire EXCEPT ![c] = <<"accept">>]
          /\ hpc' = [hpc EXCEPT ![c] = "initializing"]
          /\ EnterInitialize(c, args)
          /\ UNCHANGED sent
     ELSE /\ wire' = [wire EXCEPT ![c] = <<"accept", "error", "close">>]
          /\ hpc' = [hpc EXCEPT ![c] = "returned"]
          /\ sent' = [sent EXCEPT ![c] = Deliver(c, {"error"})]
          /\ UNCHANGED coreVars
  /\ UNCHANGED <<hreason, client, restVars, qpc, connection_tasks, ready,
                 forceRan, discDuring, qlog, queriesLeft>>

\* lines 1183-1230: initialize() returned: the "connected" status is sent
\* and the message loop starts; it raised: error, close, return
HandlerInitDone(c) ==
  /\ hpc[c] = "initializing"
  /\ ipc[c] \in {"returned", "raised", "skipped"}
  /\ IF ipc[c] = "raised"
     THEN /\ hpc' = [hpc EXCEPT ![c] = "returned"]
          /\ sent' = [sent EXCEPT ![c] = Deliver(c, {"error"})]
          /\ wire' = [wire EXCEPT ![c] = @ \o <<"error", "close">>]
          /\ UNCHANGED ready
     ELSE /\ hpc' = [hpc EXCEPT ![c] = "recv"]
          /\ ready' = [ready EXCEPT ![c] = TRUE]
          /\ UNCHANGED <<sent, wire>>
  /\ UNCHANGED verified
  /\ UNCHANGED <<coreVars, hreason, client, restVars, qpc, connection_sessions,
                 connection_tasks, forceRan, discDuring, qlog, queriesLeft>>

Messages == {"query", "empty", "bad_json"}

\* lines 1231-1250: a text frame arrives: a query starts a task that is
\* registered and awaited; an empty query is answered with an error; a
\* frame that is not JSON raises into the last except branch
HandlerRecv(c, msg) ==
  /\ hpc[c] = "recv"
  /\ client[c]
  /\ queriesLeft[c] > 0
  /\ queriesLeft' = [queriesLeft EXCEPT ![c] = @ - 1]
  /\ CASE msg = "query" ->
            /\ qpc' = [qpc EXCEPT ![c] = "created"]
            /\ connection_tasks' = connection_tasks \cup {c}
            /\ hpc' = [hpc EXCEPT ![c] = "awaiting"]
            /\ sent' = [sent EXCEPT ![c] = {}]
            /\ UNCHANGED <<connection_sessions, cpc, forceRan, hreason>>
       [] msg = "empty" ->
            /\ sent' = [sent EXCEPT ![c] = {"error"}]
            /\ UNCHANGED <<hpc, qpc, connection_sessions, connection_tasks,
                           cpc, forceRan, hreason>>
       [] msg = "bad_json" ->
            /\ sent' = [sent EXCEPT ![c] = {"error"}]
            /\ LeaveLoop(c, "error")
  /\ UNCHANGED <<listVars, mgrVars, procVars, initVars, execVars, histVars,
                 budgetVars, client, restVars, ready, authVars, discDuring,
                 qlog>>

\* the client closes the socket
ClientDisconnect(c) ==
  /\ hpc[c] \in {"recv", "awaiting"}
  /\ client[c]
  /\ client' = [client EXCEPT ![c] = FALSE]
  /\ UNCHANGED restVars
  /\ discDuring' = [discDuring EXCEPT ![c] =
                      hpc[c] = "awaiting" /\ xpc[c] = "running"]
  /\ UNCHANGED <<coreVars, hpc, hreason, qpc, connection_sessions,
                 connection_tasks, sent, ready, authVars, forceRan, qlog,
                 queriesLeft>>

\* lines 1233 and 1265-1276: receive_text raises WebSocketDisconnect
HandlerRecvDisconnect(c) ==
  /\ hpc[c] = "recv"
  /\ ~client[c]
  /\ LeaveLoop(c, "disconnect")
  /\ UNCHANGED <<listVars, mgrVars, procVars, initVars, execVars, histVars,
                 budgetVars, client, restVars, sent, ready, authVars,
                 discDuring, qlog, queriesLeft>>

\* lines 966-996: the task starts: without a user agent it answers with an
\* error and returns None; otherwise it calls execute_agent_with_context
\* with the connection's session id, agent id and workspace id
QueryStart(c) ==
  LET m == ManagerOf(c) IN
  /\ hpc[c] = "awaiting"
  /\ qpc[c] = "created"
  /\ IF sub_agents[m].set
     THEN /\ qpc' = [qpc EXCEPT ![c] = "running"]
          /\ ExecBegin(c, m, sub_agents[m], "q1", c, TRUE)
          /\ UNCHANGED <<sent, qlog>>
     ELSE /\ qpc' = [qpc EXCEPT ![c] = "done_no_agent"]
          /\ sent' = [sent EXCEPT ![c] = Deliver(c, {"error"})]
          /\ qlog' = [qlog EXCEPT ![c] = Append(@, "no_agent")]
          /\ UNCHANGED <<execVars>>
  /\ UNCHANGED <<listVars, mgrVars, procVars, initVars, cpc, served, histVars,
                 budgetVars, hpc, hreason, client, restVars,
                 connection_sessions, connection_tasks, ready, authVars,
                 forceRan, discDuring, queriesLeft>>

\* lines 1035-1053: how the task ends after the execution: the final
\* response; the error of except Exception, the task returning None; the
\* "cancelled" status, the CancelledError re-raised
QueryEnd(outcome) ==
  CASE outcome = "returned" -> [qpc |-> "done_final", kind |-> "final"]
    [] outcome = "timeout" -> [qpc |-> "done_timeout", kind |-> "error"]
    [] outcome = "error" -> [qpc |-> "done_error", kind |-> "error"]
    [] outcome = "cancelled" -> [qpc |-> "cancelled", kind |-> "cancelled"]

QueryFinish(c) ==
  /\ qpc[c] = "running"
  /\ xpc[c] \in {"returned", "timeout", "error", "cancelled"}
  /\ qpc' = [qpc EXCEPT ![c] = QueryEnd(xpc[c]).qpc]
  /\ sent' = [sent EXCEPT ![c] = Deliver(c, {QueryEnd(xpc[c]).kind})]
  /\ qlog' = [qlog EXCEPT ![c] = Append(@, xpc[c])]
  /\ UNCHANGED <<coreVars, hpc, hreason, client, restVars,
                 connection_sessions, connection_tasks, ready, authVars,
                 forceRan, discDuring, queriesLeft>>

\* lines 1256-1258: except asyncio.CancelledError: break
LoopAfterAlwaysBreak(q) == "returned"

LoopAfter(q) == IF q = "cancelled" THEN "returned" ELSE "recv"

\* lines 1254-1264: await task ends; cleanup_task; a cancelled task ends
\* the loop and the handler returns
HandlerTaskDone(c) ==
  /\ hpc[c] = "awaiting"
  /\ ~TaskLive(c)
  /\ connection_tasks' = connection_tasks \ {c}
  /\ hpc' = [hpc EXCEPT ![c] = LoopAfter(qpc[c])]
  /\ UNCHANGED <<coreVars, hreason, client, restVars, qpc,
                 connection_sessions, sent, ready, authVars, forceRan,
                 discDuring, qlog, queriesLeft>>

\* the handler's task is cancelled. At receive_text the CancelledError
\* reaches lines 1277-1285. At await task it cancels the query task: one
\* not yet started never runs, a running execution gets the CancelledError
CancelHandler(c) ==
  /\ \/ /\ hpc[c] = "recv"
        /\ LeaveLoop(c, "cancelled")
        /\ UNCHANGED <<listVars, mgrVars, procVars, initVars, execVars,
                       histVars, budgetVars, qlog>>
     \/ /\ hpc[c] = "awaiting"
        /\ qpc[c] = "created"
        /\ qpc' = [qpc EXCEPT ![c] = "cancelled"]
        /\ qlog' = [qlog EXCEPT ![c] = Append(@, "cancelled")]
        /\ UNCHANGED <<coreVars, hpc, hreason, connection_sessions,
                       connection_tasks, forceRan>>
     \/ /\ hpc[c] = "awaiting"
        /\ qpc[c] = "running"
        /\ ExecCancelled(c)
        /\ UNCHANGED <<hpc, hreason, qpc, connection_sessions,
                       connection_tasks, forceRan, qlog>>
  /\ UNCHANGED <<client, restVars, sent, ready, authVars, discDuring,
                 queriesLeft>>

\* _force_cleanup ended (or its wait_for gave up, which also clears the
\* stack): the handler returns, or re-raises the CancelledError
HandlerReturn(c) ==
  /\ hpc[c] = "closing"
  /\ cpc[c] = "idle"
  /\ hpc' = [hpc EXCEPT ![c] = IF hreason[c] = "cancelled" THEN "reraised"
                               ELSE "returned"]
  /\ UNCHANGED <<coreVars, hreason, client, restVars, qpc,
                 connection_sessions, connection_tasks, sent, ready, authVars,
                 forceRan, discDuring, qlog, queriesLeft>>

----------------------------------------------------------------------------
(* query_endpoint (/chat/api/query) and subagent_endpoint
   (/chat/api/subagent): one request per task, each with a manager of its
   own *)

Endpoints == {"query", "subagent"}

\* lines 1525-1544 and 1729-1746: the teardown is the finally clause of the
\* try block that follows the creation of the manager, so it runs however
\* the block is left
RunsTeardownOnSuccess(path) == path = "success"

RunsTeardown(path) == TRUE

\* send_completion_call is scheduled (asyncio.create_task) by the query
\* endpoint when the metadata carries a message_id
Scheduled(t, status) ==
  IF rreq[t].endpoint = "query" /\ rreq[t].message_id
  THEN [completions EXCEPT ![t] = Append(@, status)]
  ELSE completions

\* the inner try block is left: the finally clause calls _force_cleanup
\* under asyncio.wait_for
LeaveTry(t, path) ==
  /\ rpath' = [rpath EXCEPT ![t] = path]
  /\ IF RunsTeardown(path)
     THEN /\ ForceCleanupBegin(t, ManagerOf(t))
          /\ rpc' = [rpc EXCEPT ![t] = "teardown"]
     ELSE /\ rpc' = [rpc EXCEPT ![t] = "after"]
          /\ UNCHANGED cpc

\* lines 1349-1431: the request arrives. A rejected token (or an answer
\* without agent id) raises HTTPException; otherwise the manager is created
\* and initialize() is called
RestStart(t, ep, mid, authOK, args) ==
  /\ rpc[t] = "idle"
  /\ hpc[t] = "idle"
  /\ rreq' = [rreq EXCEPT ![t] = [endpoint |-> ep, message_id |-> mid]]
  /\ IF authOK
     THEN /\ EnterInitialize(t, args)
          /\ rpc' = [rpc EXCEPT ![t] = "initializing"]
          /\ UNCHANGED completions
     ELSE /\ rpc' = [rpc EXCEPT ![t] = "http_error"]
          /\ completions' = IF ep = "query" /\ mid
                            THEN [completions EXCEPT ![t] =
                                    Append(@, "failed")]
                            ELSE completions
          /\ UNCHANGED coreVars
  /\ UNCHANGED <<hpc, hreason, client, qpc, connection_sessions,
                 connection_tasks, sent, ready, authVars, forceRan,
                 discDuring, qlog, queriesLeft, rpath>>

\* lines 1433-1463: initialize() raised: the try block is left; it
\* returned without a user agent: HTTPException 500; otherwise the agent is
\* executed without a session id
RestInitDone(t) ==
  LET m == ManagerOf(t) IN
  /\ rpc[t] = "initializing"
  /\ ipc[t] \in {"returned", "raised", "skipped"}
  /\ IF ipc[t] = "raised" \/ ~sub_agents[m].set
     THEN /\ LeaveTry(t, IF ipc[t] = "raised" THEN "exception" ELSE "http")
          /\ UNCHANGED execVars
     ELSE /\ ExecBegin(t, m, sub_agents[m], "q1", None, TRUE)
          /\ rpc' = [rpc EXCEPT ![t] = "executing"]
          /\ UNCHANGED <<served, cpc, rpath>>
  /\ UNCHANGED <<listVars, mgrVars, procVars, initVars, histVars, budgetVars,
                 hpc, hreason, client, qpc, connection_sessions,
                 connection_tasks, sent, ready, authVars, forceRan,
                 discDuring, qlog, queriesLeft, rreq, completions>>

\* lines 1455-1523: the execution ended. On success the "completed" call
\* is scheduled and the response built, then the finally clause runs
RestExecDone(t) ==
  /\ rpc[t] = "executing"
  /\ xpc[t] \in {"returned", "timeout", "error", "cancelled"}
  /\ completions' = IF xpc[t] = "returned" THEN Scheduled(t, "completed")
                    ELSE completions
  /\ LeaveTry(t, CASE xpc[t] = "returned" -> "success"
                   [] xpc[t] = "cancelled" -> "cancelled"
                   [] OTHER -> "exception")
  /\ UNCHANGED <<listVars, mgrVars, procVars, initVars, execVars, histVars,
                 budgetVars, hpc, hreason, client, qpc, connection_sessions,
                 connection_tasks, sent, ready, authVars, forceRan,
                 discDuring, qlog, queriesLeft, rreq>>

\* lines 1527-1544: _force_cleanup ended within the two seconds of
\* asyncio.wait_for, or the wait gave up: the cancelled _force_cleanup
\* drops the stack in its finally clause and cleanup() is called as the
\* fallback
RestTeardownDone(t, outcome) ==
  LET m == ManagerOf(t) IN
  /\ rpc[t] = "teardown"
  /\ cpc[t] = "force_closing"
  /\ procs' = ProcsAfterClose(m, outcome)
  /\ UNCHANGED swept
  /\ stack' = [stack EXCEPT ![m] = StackAfterClose(@, outcome)]
  /\ cpc' = [cpc EXCEPT ![t] = "idle"]
  /\ rpc' = [rpc EXCEPT ![t] = IF outcome = "timeout" THEN "fallback"
                               ELSE "after"]
  /\ UNCHANGED <<listVars, server_tools, all_tools, sub_agents, agent,
                 is_initializing, initialization_lock, initVars, execVars,
                 histVars, budgetVars, hpc, hreason, client, qpc,
                 connection_sessions, connection_tasks, sent, ready, authVars,
                 forceRan, discDuring, qlog, queriesLeft, rreq, rpath,
                 completions>>

\* the fallback of lines 1533-1537: cleanup() is called
RestFallback(t) == rpc[t] = "fallback" /\ CallCleanup(t)

\* how the request ends after the try block was left in the way given
RestEnd(path) ==
  CASE path = "success" -> [rpc |-> "responded_200", status |-> None]
    [] path = "exception" -> [rpc |-> "responded_500", status |-> "failed"]
    [] path = "http" -> [rpc |-> "http_error", status |-> "failed"]
    [] path = "cancelled" -> [rpc |-> "cancelled", status |-> None]

\* lines 1546-1566: the finally clause is over: the response of the return
\* statement is sent, or the exception reaches `except HTTPException`
\* or `except Exception`, which schedule the "failed" call; a CancelledError
\* passes both
RestRespond(t) ==
  /\ \/ rpc[t] \in {"teardown", "after"}
     \/ rpc[t] = "fallback" /\ cleanLeft[t] = 0
  /\ cpc[t] = "idle"
  /\ rpc' = [rpc EXCEPT ![t] = RestEnd(rpath[t]).rpc]
  /\ completions' = IF RestEnd(rpath[t]).status = None THEN completions
                    ELSE Scheduled(t, RestEnd(rpath[t]).status)
  /\ UNCHANGED <<coreVars, hpc, hreason, client, qpc, connection_sessions,
                 connection_tasks, sent, ready, authVars, forceRan,
                 discDuring, qlog, queriesLeft, rreq, rpath>>

\* the task of the request is cancelled: during the execution the
\* CancelledError is raised in execute_agent_with_context; during the
\* _force_cleanup of the finally clause it drops the stack and replaces
\* whatever the try block was left with
RestCancel(t, outcome) ==
  LET m == ManagerOf(t) IN
  /\ \/ /\ rpc[t] = "executing"
        /\ ExecCancelled(t)
        /\ UNCHANGED <<rpc, rpath>>
     \/ /\ rpc[t] = "teardown"
        /\ cpc[t] = "force_closing"
        /\ procs' = ProcsAfterClose(m, outcome)
        /\ UNCHANGED swept
        /\ stack' = [stack EXCEPT ![m] = StackAfterClose(@, outcome)]
        /\ cpc' = [cpc EXCEPT ![t] = "idle"]
        /\ rpc' = [rpc EXCEPT ![t] = "after"]
        /\ rpath' = [rpath EXCEPT ![t] = "cancelled"]
        /\ UNCHANGED <<listVars, server_tools, all_tools, sub_agents, agent,
                       is_initializing, initialization_lock, initVars,
                       execVars, histVars, budgetVars>>
  /\ UNCHANGED <<hpc, hreason, client, qpc, connection_sessions,
                 connection_tasks, sent, ready, authVars, forceRan,
                 discDuring, qlog, queriesLeft, rreq, completions>>

----------------------------------------------------------------------------
(* Two tasks calling initialize() on one manager *)

SFTasks == {"A", "X"}

\* the configs a call may enable: no special server, or both
SFArgs == {{}, Specials}

\* each of the two tasks issues one initialize() call
InitSF == InitWith(1, 0, 0, 0, 0)

NextSF ==
  \E t \in SFTasks :
    \/ \E args \in SFArgs : CallInitialize(t, args)
    \/ InitializeSteps(t)

SpecSF == InitSF /\ [][NextSF]_vars

----------------------------------------------------------------------------
(* Two connections, each driving its own manager *)

\* the special servers each connection enables: different server configs
IsoArgs(c) == IF c = "A" THEN {"gmail"} ELSE {}

\* the LLM of these executions answers with a function call or a final answer
IsoResponses(c) ==
  {r \in LLMResponses(AgentToolNames(xagent[c])) : r.tool_calls = <<>>}

\* each connection issues at most one initialize(), one execution with at
\* most one tool call and one cleanup() or _force_cleanup(), in any order
\* and interleaving
InitIso == InitWith(1, 1, 1, 0, 1)

NextIso ==
  \E c \in Conns :
    \/ CallInitialize(c, IsoArgs(c))
    \/ \E o \in ConnectOutcomes : Connect(c, o)
    \/ \E o \in LoadOutcomes : Load(c, o)
    \/ \E o \in TeardownOutcomes : FailCleanupDone(c, o)
    \/ CallExecute(c, "q1", c, FALSE)
    \/ \E r \in IsoResponses(c) : LLMCall(c, r)
    \/ \E ok \in BOOLEAN, kw \in {xcall[c], None} : ToolDone(c, ok, kw)
    \/ \E r \in IsoResponses(c) : LLMFinal(c, r)
    \/ CallForceCleanup(c)
    \/ CallCleanup(c)
    \/ \E o \in TeardownOutcomes : ForceCleanupDone(c, o)
    \/ CleanupSlept(c)
    \/ \E o \in TeardownOutcomes : CleanupClosed(c, o)

SpecIso == InitIso /\ [][NextIso]_vars

----------------------------------------------------------------------------
(* One connection through its life *)

\* the connection enables no special server: its agent has the math tools
ConnArgs == {}

ConnResponses(c) == LLMResponses(AgentToolNames(xagent[c]))

InitConn == InitWith(1, 0, 0, MaxQueries, MaxLLMCalls)

NextConn ==
  \E c \in {"A"} :
    \/ \E ok \in BOOLEAN : HandlerStart(c, ok, ConnArgs)
    \/ HandlerInitDone(c)
    \/ \E msg \in Messages : HandlerRecv(c, msg)
    \/ ClientDisconnect(c)
    \/ HandlerRecvDisconnect(c)
    \/ QueryStart(c)
    \/ QueryFinish(c)
    \/ HandlerTaskDone(c)
    \/ CancelHandler(c)
    \/ HandlerReturn(c)
    \/ \E o \in ConnectOutcomes : Connect(c, o)
    \/ \E o \in LoadOutcomes : Load(c, o)
    \/ \E o \in TeardownOutcomes : FailCleanupDone(c, o)
    \/ \E r \in ConnResponses(c) : LLMCall(c, r)
    \/ \E ok \in BOOLEAN, kw \in {xcall[c], None} : ToolDone(c, ok, kw)
    \/ \E r \in ConnResponses(c) : LLMFinal(c, r)
    \/ ExecTimeout(c)
    \/ ExecError(c)
    \/ \E o \in TeardownOutcomes : ForceCleanupDone(c, o)

SpecConn == InitConn /\ [][NextConn]_vars

----------------------------------------------------------------------------
(* One task initializing a manager, another tearing it down *)

\* the configs the initialize() call may enable
LockArgs == {{}, {"gmail"}}

\* task "A" issues one initialize(), task "X" one cleanup() or
\* _force_cleanup() on the same manager
InitLock == InitWith(1, 0, 1, 0, 0)

NextLock ==
  \/ \E args \in LockArgs : CallInitialize("A", args)
  \/ AcquireLock("A")
  \/ \E o \in ConnectOutcomes : Connect("A", o)
  \/ \E o \in LoadOutcomes : Load("A", o)
  \/ \E o \in TeardownOutcomes : FailCleanupDone("A", o)
  \/ CallForceCleanup("X")
  \/ \E o \in TeardownOutcomes : ForceCleanupDone("X", o)
  \/ CallCleanup("X")
  \/ CleanupAcquire("X")
  \/ CleanupSlept("X")
  \/ \E o \in TeardownOutcomes : CleanupClosed("X", o)

SpecLock == InitLock /\ [][NextLock]_vars

----------------------------------------------------------------------------
(* Two connections, one of them with sub-agents *)

\* connection "A" supplies sub-agents; "B" supplies its own or none
SubArgs(c) == IF c = "A" THEN {{"subagents"}} ELSE {{}, {"subagents"}}

SubResponses(c) ==
  {r \in LLMResponses(AgentToolNames(xagent[c])) : r.tool_calls = <<>>}

\* each connection issues one initialize() and one execution
InitSub == InitWith(1, 1, 0, 0, MaxLLMCalls)

NextSub ==
  \E c \in Conns :
    \/ \E args \in SubArgs(c) : CallInitialize(c, args)
    \/ \E o \in ConnectOutcomes : Connect(c, o)
    \/ \E o \in LoadOutcomes : Load(c, o)
    \/ \E o \in TeardownOutcomes : FailCleanupDone(c, o)
    \/ CallExecute(c, "q1", c, FALSE)
    \/ \E r \in SubResponses(c) : LLMCall(c, r)
    \/ \E ok \in BOOLEAN, kw \in {xcall[c], None} : ToolDone(c, ok, kw)
    \/ \E r \in SubResponses(c) : LLMFinal(c, r)

SpecSub == InitSub /\ [][NextSub]_vars

----------------------------------------------------------------------------
(* conversation sessions on their own: callers append messages to the
   session of a connection *)

MaxAppends == 12

MsgRoles == {"user", "assistant"}

\* a caller appends a message of the role to the session of the id, as
\* execute_agent_with_context does at lines 710 and 790
AddMessage(sid, role) ==
  LET msg == IF role = "user"
             THEN ConversationMessage("user", "q1", None)
             ELSE ConversationMessage("assistant", "answer", "user_agent")
  IN
  /\ Len(appended[sid]) < MaxAppends
  /\ sessions' = [sessions EXCEPT ![sid] =
                    add_message(get_or_create_session(sid), msg.role,
                                msg.content, msg.agent_type)]
  /\ appended' = Recorded(sid, msg)
  /\ UNCHANGED lastSweep
  /\ UNCHANGED <<listVars, mgrVars, procVars, initVars, cpc, xframeVars,
                 loggerVars, now, execCount, served, histVars, budgetVars>>
  /\ UNCHANGED connVars

InitMsg == InitWith(0, 0, 0, 0, 0)

NextMsg == \E role \in MsgRoles : AddMessage("A", role)

SpecMsg == InitMsg /\ [][NextMsg]_vars

----------------------------------------------------------------------------
(* one task calling initialize() on its manager again and again, and
   being cancelled inside the calls *)

InitReinit == InitWith(3, 0, 0, 0, 0)

NextReinit ==
  \/ CallInitialize("A", {})
  \/ \E o \in TeardownOutcomes : PreCleanupDone("A", o)
  \/ \E o \in ConnectOutcomes : Connect("A", o)
  \/ \E o \in LoadOutcomes : Load("A", o)
  \/ \E o \in TeardownOutcomes : FailCleanupDone("A", o)
  \/ \E o \in TeardownOutcomes : CancelInitialize("A", o)

SpecReinit == InitReinit /\ [][NextReinit]_vars

----------------------------------------------------------------------------
(* REST requests, each with its own manager *)

\* each request issues one initialize() and at most one fallback cleanup();
\* the agent answers without calling a tool
InitRest == InitWith(1, 0, 1, 0, 0)

RestResponses == {r \in LLMResponses({}) : r.tool_calls = <<>>}

NextRest ==
  \E t \in Conns :
    \/ \E ep \in Endpoints, mid, ok \in BOOLEAN : RestStart(t, ep, mid, ok, {})
    \/ \E o \in ConnectOutcomes : Connect(t, o)
    \/ \E o \in LoadOutcomes : Load(t, o)
    \/ \E o \in TeardownOutcomes : FailCleanupDone(t, o)
    \/ RestInitDone(t)
    \/ \E r \in RestResponses : LLMFinal(t, r)
    \/ ExecTimeout(t)
    \/ ExecError(t)
    \/ RestExecDone(t)
    \/ \E o \in TeardownOutcomes : RestTeardownDone(t, o)
    \/ RestFallback(t)
    \/ CleanupSlept(t)
    \/ RestRespond(t)
    \/ \E o \in TeardownOutcomes : RestCancel(t, o)

SpecRest == InitRest /\ [][NextRest]_vars

----------------------------------------------------------------------------
(* conversation sessions over time: two connections execute queries in
   their sessions and call cleanup(), which sweeps the expired sessions,
   while the wall clock advances *)

MaxClock == 36

\* the clock is read every half time to live
Hours == {CONVERSATION_CLEANUP_HOURS \div 2}

\* the wall clock advances by d hours. An execution is in flight for little
\* more than the 60 seconds of asyncio.wait_for (lines 747-750): the clock
\* advances at most once while it runs
Tick(d) ==
  /\ now + d <= MaxClock
  /\ \A t \in Tasks : xpc[t] = "running" => now = xstart[t]
  /\ now' = now + d
  /\ UNCHANGED <<listVars, mgrVars, procVars, initVars, cpc, xframeVars,
                 loggerVars, sessions, appended, lastSweep, execCount,
                 served, histVars, budgetVars>>
  /\ UNCHANGED connVars

TtlResponses == {r \in LLMResponses({}) : r.tool_calls = <<>>}

\* each connection issues at most one initialize(), two executions without
\* tool calls and one cleanup()
InitTtl == InitWith(1, 2, 1, 0, 0)

\* the managers of both connections are initialized
Established == \A c \in Conns : sub_agents[ManagerOf(c)].set \/ cleanLeft[c] = 0

\* the connections are established first; then they execute and clean up
\* while time passes
NextTtl ==
  \/ \E c \in Conns :
       \/ CallInitialize(c, {})
       \/ Connect(c, "ok")
       \/ Load(c, "ok")
       \/ Established /\ CallExecute(c, "q1", c, FALSE)
       \/ \E r \in TtlResponses : LLMFinal(c, r)
       \/ ExecError(c)
       \/ Established /\ CallCleanup(c)
       \/ CleanupSlept(c)
       \/ CleanupClosed(c, "closed")
  \/ \E d \in Hours : Established /\ Tick(d)

SpecTtl == InitTtl /\ [][NextTtl]_vars

----------------------------------------------------------------------------
(* Properties *)

Done(t) == ipc[t] \in {"returned", "raised", "skipped"}

\* C1: every tool invocation of an execution on a connection's manager is
\* served by a session that an initialize() of that same connection
\* spawned, never by a session of the other connection's manager
C1_Isolation ==
  \A c \in Conns : \A s \in served[c] : s.by = c

\* both connections were initialized with different configs and each had a
\* tool invocation served
C1_Witness ==
  /\ iargs["A"] # iargs["B"]
  /\ served["A"] # {}
  /\ served["B"] # {}

\* C2: of two concurrent initialize() calls on one manager, the one that
\* found the other in progress returns without spawning and without tearing
\* down, so that one spawn set exists in total
C2_SingleFlight ==
  \A t \in SFTasks :
    (waited[t] /\ Done(t)) =>
      /\ spawned[t] = 0
      /\ ~toreDown[t]
      /\ spawnSets[MgrOfTask(t)] = 1

\* activity records the execution a task is running or last ran created
ActivitiesOf(acts, t) ==
  {i \in DOMAIN acts : acts[i].exec = ExecId(t)}

Terminal(act) == act.status \in {"completed", "failed"}

\* C3: when an execution has ended by success, timeout or cancellation,
\* every activity record created during it is completed or failed
C3_ActivitiesResolved ==
  \A c \in Conns :
    xpc[c] \in {"returned", "timeout", "cancelled"} =>
      \A i \in ActivitiesOf(activities, c) : Terminal(activities[i])

Ended(c) == hpc[c] \in {"returned", "reraised"}

\* C4: when the handler of a connection whose manager was initialized has
\* returned, it has run _force_cleanup and the manager's stack is cleared
C4_TeardownOnEnd ==
  \A c \in Conns :
    (Ended(c) /\ ready[c]) =>
      /\ forceRan[c]
      /\ ~stack[ManagerOf(c)].set

\* the manager is Ready and the processes of its stack are running
ReadyAndRunning(m) ==
  /\ sub_agents[m].set
  /\ agent[m].set
  /\ stack[m].set
  /\ Range(stack[m].sessions) \subseteq procs

\* the handler stops awaiting the query task
TaskAwaited(c) == hpc[c] = "awaiting" /\ hpc'[c] # "awaiting"

RunningOf(acts, t) ==
  {i \in ActivitiesOf(acts, t) : acts[i].status = "running"}

\* every running record of the execution becomes failed with the reason
FailsRunning(t, reason) ==
  \A i \in RunningOf(activities, t) :
    /\ activities'[i].status = "failed"
    /\ activities'[i].reason = reason

\* C6: when an execution times out, the agent call is over, every running
\* activity record of the execution is failed with the timeout reason, and
\* the query task ends with an error, not a result
C6_Timeout ==
  [][\A c \in Conns :
       /\ (xpc[c] = "running" /\ xpc'[c] = "timeout") =>
            /\ xstage'[c] = None
            /\ FailsRunning(c, "Execution timeout")
       /\ (qpc[c] = "running" /\ xpc[c] = "timeout" /\ qpc'[c] # "running") =>
            /\ qpc'[c] = "done_timeout"
            /\ "final" \notin sent'[c]
            /\ client[c] => "error" \in sent'[c]]_vars

\* C7: when an execution is cancelled, the agent call is over, every
\* running activity record of the execution is failed with the cancellation
\* reason, and the query task ends cancelled, not with a normal return
C7_Cancellation ==
  [][\A c \in Conns :
       /\ (xpc[c] = "running" /\ xpc'[c] = "cancelled") =>
            /\ xstage'[c] = None
            /\ FailsRunning(c, "Execution cancelled")
       /\ (qpc[c] = "running" /\ xpc[c] = "cancelled" /\ qpc'[c] # "running") =>
            qpc'[c] = "cancelled"]_vars

\* C8: an execution that was in flight when the client disconnected does
\* not run to completion
C8_DisconnectCancels ==
  \A c \in Conns : discDuring[c] => xpc[c] # "returned"

LoopEnds(t) ==
  /\ ipc[t] \in {"connect", "load"}
  /\ ipc'[t] \notin {"connect", "load"}

\* C9: when no configured server yields tools, initialize() fails with the
\* no-tools error and the manager gets no agent
C9_NoToolsAvailable ==
  [][\A t \in Tasks :
       LET m == MgrOfTask(t) IN
       /\ (LoopEnds(t) /\ \A i \in 1..Len(tried'[t]) : tried'[t][i].outcome # "ok")
            => /\ ierr'[t] = "no_tools"
               /\ ipc'[t] \in {"fail_cleanup", "raised"}
               /\ ~sub_agents'[m].set
               /\ ~agent'[m].set
       /\ (ipc[t] = "fail_cleanup" /\ ierr[t] = "no_tools")
            => /\ ipc'[t] \in {"fail_cleanup", "raised"}
               /\ ierr'[t] = "no_tools"
               /\ ~sub_agents'[m].set
               /\ ~agent'[m].set]_vars

\* an initialize() over several servers, all of which failed, has raised
C9_Witness ==
  \E t \in Tasks :
    /\ ipc[t] = "raised"
    /\ ierr[t] = "no_tools"
    /\ Len(tried[t]) = 3
    /\ \E i \in 1..Len(tried[t]) : tried[t][i].outcome = "handshake_fail"
    /\ \E i \in 1..Len(tried[t]) : tried[t][i].outcome = "load_fail"
    /\ \E i \in 1..Len(tried[t]) : tried[t][i].outcome = "empty"

RECURSIVE ExpectedTools(_, _, _)
ExpectedTools(tr, by, gen) ==
  IF tr = <<>> THEN <<>>
  ELSE (IF Head(tr).outcome = "ok"
        THEN [i \in 1..Len(ToolsOf(Head(tr).server)) |->
                [name |-> ToolsOf(Head(tr).server)[i],
                 session |-> [by |-> by, gen |-> gen, server |-> Head(tr).server]]]
        ELSE <<>>)
       \o ExpectedTools(Tail(tr), by, gen)

\* C10: when some server yields tools and others fail, every server of the
\* config was attempted, the aggregated tools are exactly those of the
\* succeeding servers in config order, each list is recorded under its own
\* server id, and initialize() returns (the agent construction that
\* follows raising being its only way to fail)
C10_PartialFailure ==
  [][\A t \in Tasks :
       LET m == MgrOfTask(t)
           tr == tried'[t]
       IN
       (LoopEnds(t) /\ \E i \in 1..Len(tr) : tr[i].outcome = "ok")
         => /\ [i \in 1..Len(tr) |-> tr[i].server] = icfg[t]
            /\ all_tools'[m] = ExpectedTools(tr, t, stack[m].gen)
            /\ \A i \in 1..Len(tr) :
                 /\ server_tools'[m][tr[i].server].loaded =
                      (tr[i].outcome \in {"ok", "empty"})
                 /\ tr[i].outcome = "ok" =>
                      server_tools'[m][tr[i].server].tools =
                        ExpectedTools(<<tr[i]>>, t, stack[m].gen)
            /\ ierr'[t] # "no_tools"
            /\ (ipc'[t] = "returned") = (ierr'[t] = None)
            /\ ipc'[t] = "returned" =>
                 /\ sub_agents'[m] = AgentsOver(all_tools'[m])
                 /\ agent'[m] = AgentsOver(all_tools'[m])]_vars

\* an initialize() returned although a server before a succeeding one failed
C10_Witness ==
  \E t \in Tasks :
    /\ ipc[t] = "returned"
    /\ Len(tried[t]) = 3
    /\ tried[t][1].outcome = "spawn_fail"
    /\ tried[t][2].outcome = "ok"
    /\ tried[t][3].outcome = "handshake_fail"
    /\ Len(all_tools[MgrOfTask(t)]) = 1

Names(tools) == [i \in 1..Len(tools) |-> tools[i].name]

Distinct(seq) == \A i, j \in 1..Len(seq) : i # j => seq[i] # seq[j]

\* C11: the tools a manager's agents were built over have pairwise
\* distinct names: initialize() does not succeed over two servers that
\* list a tool of the same name
C11_UniqueOperationNames ==
  \A m \in Managers :
    sub_agents[m].set => Distinct(Names(sub_agents[m].tools))

\* the Empty state of a manager: as __init__ leaves it
Empty(m) ==
  /\ ~stack[m].set
  /\ server_tools[m] = NoServerTools
  /\ all_tools[m] = <<>>
  /\ ~sub_agents[m].set
  /\ ~agent[m].set

Raises(t) == ipc[t] # "raised" /\ ipc'[t] = "raised"

\* C12: when initialize() raises, it raises the error of the build and
\* leaves the manager Empty with _is_initializing false
C12_FailedInitLeavesEmpty ==
  [][\A t \in Tasks :
       Raises(t) =>
         /\ ierr'[t] # None
         /\ ~is_initializing'[MgrOfTask(t)]
         /\ Empty(MgrOfTask(t))']_vars

\* an execution of the task starts on an agent of its manager
ExecStarts(t) == xpc[t] # "running" /\ xpc'[t] = "running"

\* C13: a query is passed to an agent only on a manager that is Ready, with
\* the processes of the stack its agents were built over still running
C13_QueryOnlyWhenReady ==
  [][\A t \in Tasks :
       ExecStarts(t) => ReadyAndRunning(MgrOfTask(t))]_vars

\* a cleanup() or _force_cleanup() call of the task returns
TeardownReturns(t) == cpc[t] # "idle" /\ cpc'[t] = "idle"

\* the fields of a manager that teardown may reset
ManagerState(m) ==
  <<stack[m], server_tools[m], all_tools[m], sub_agents[m], agent[m]>>

\* C14: when cleanup() or _force_cleanup() returns the manager is Empty, and
\* when it ran on a manager that was Empty already it changed no state
C14_TeardownResetsToEmpty ==
  [][\A t \in Tasks :
       TeardownReturns(t) =>
         /\ Empty(MgrOfTask(t))'
         /\ Empty(MgrOfTask(t)) =>
              ManagerState(MgrOfTask(t))' = ManagerState(MgrOfTask(t))]_vars

\* the task is inside _force_cleanup, waiting for the stack to close
Closing(t) == cpc[t] = "force_closing"

\* C15: while _force_cleanup() waits for the stack to close, the end of its
\* bounded wait is always possible, and whichever way the wait ends the call
\* returns normally with the manager's stack cleared
C15_ForceCleanupReturns ==
  [][\A t \in Tasks :
       Closing(t) =>
         /\ ENABLED ForceCleanupDone(t, "timeout")
         /\ ~Closing(t)' =>
              /\ cpc'[t] = "idle"
              /\ ~stack'[MgrOfTask(t)].set]_vars

\* _force_cleanup() has returned on an initialized manager whose stack did
\* not close: the stack is cleared while its processes are still running
C15_Witness ==
  \E c \in Conns :
    /\ ipc[c] = "returned"
    /\ cleanLeft[c] = 0
    /\ cpc[c] = "idle"
    /\ sub_agents[ManagerOf(c)].set
    /\ ~stack[ManagerOf(c)].set
    /\ \E s \in procs : s.by = c

\* an initialize() call of the task is in progress, past the lock
Initializing(t) == ipc[t] \in {"pre_cleanup", "connect", "load", "fail_cleanup"}

\* a cleanup() or _force_cleanup() call of the task is closing the stack
TearingDown(t) == cpc[t] \in {"force_closing", "cleanup_closing"}

\* C16: on one manager, no task is closing the stack through cleanup() or
\* _force_cleanup() while an initialize() call of another task is in progress
C16_LockSerializes ==
  \A t, u \in Tasks :
    (t # u /\ MgrOfTask(t) = MgrOfTask(u)) =>
      ~(Initializing(t) /\ TearingDown(u))

\* the sub-agents server of the task's manager serves a call_subagent call
SubagentCallServed(t) ==
  /\ xstage[t] = "tool"
  /\ xcall[t] = "call_subagent"
  /\ xstage'[t] = "llm"

\* C17: the mapping the sub-agents server of a connection resolves a
\* call_subagent call against is the one supplied to that connection's own
\* initialize()
C17_OwnSubagentMapping ==
  [][\A c \in Conns :
       SubagentCallServed(c) => get_subagents_mapping = ManagerOf(c)]_vars

\* the client-side tasks of the session were cancelled by a cleanup() call
\* on the manager of another connection
CancelledByOther(sess) ==
  \E e \in swept : e.sess = sess /\ MgrOfTask(e.by) # MgrOfTask(sess.by)

\* C18: while an execution of a connection is in flight, no session its
\* agent's tools are bound to has had its tasks cancelled by a cleanup() on
\* the manager of another connection
C18_CancellationConfined ==
  \A b \in Conns :
    xpc[b] = "running" =>
      \A i \in 1..Len(xagent[b].tools) :
        ~CancelledByOther(xagent[b].tools[i].session)

\* the servers whose handshake or tool discovery failed in the initialize()
\* call of the task
FailedServers(t) ==
  {tried[t][i].server :
     i \in {j \in 1..Len(tried[t]) :
              tried[t][j].outcome \in {"handshake_fail", "load_fail"}}}

\* C19: a session whose handshake or tool discovery failed is not kept: the
\* manager's stack holds no session of that server and no process spawned
\* for it is running
C19_FailedSessionDiscarded ==
  \A t \in Tasks :
    \A s \in Range(stack[MgrOfTask(t)].sessions) \cup procs :
      s.by = t => s.server \notin FailedServers(t)

\* the execution that created the record is over
ExecutionOver(act) ==
  \/ act.exec.n < execCount[act.exec.task]
  \/ xpc[act.exec.task] # "running"

\* C20: a record is running until its terminal update, no record gets a
\* second terminal update, and once the execution that created it is over
\* every record has had exactly one
C20_OneTerminalUpdate ==
  \A i \in DOMAIN activities :
    /\ activities[i].updates <= 1
    /\ activities[i].updates = 0 <=> activities[i].status = "running"
    /\ ExecutionOver(activities[i]) => activities[i].updates = 1

\* messages of the role in a message list
OfRole(msgs, role) == {i \in 1..Len(msgs) : msgs[i].role = role}

\* the execution of the task ended by timeout, cancellation or exception
Failed(t) == xpc[t] \in {"timeout", "cancelled", "error"}

\* C21: the user query and the answer are appended together, on success
\* only: after an execution that failed, the session holds no query
\* without its answer
C21_AppendOnSuccessOnly ==
  \A t \in Tasks :
    (Failed(t) /\ xsid[t] # None) =>
      Cardinality(OfRole(sessions[xsid[t]].messages, "user"))
        = Cardinality(OfRole(sessions[xsid[t]].messages, "assistant"))

\* C22: a session never holds more than MAX_CONVERSATION_MESSAGES messages,
\* and what it holds are the most recent messages appended to it, in the
\* order they were appended
C22_BoundedHistory ==
  \A c \in Conns :
    LET h == appended[c]
        ms == sessions[c].messages
        n == Len(h)
    IN /\ Len(ms) <= MAX_CONVERSATION_MESSAGES
       /\ Len(ms) = IF n > MAX_CONVERSATION_MESSAGES
                    THEN MAX_CONVERSATION_MESSAGES ELSE n
       /\ \A i \in 1..Len(ms) : ms[i] = h[n - Len(ms) + i]

\* more than MAX_CONVERSATION_MESSAGES messages of both roles were appended
\* to a session
C22_Witness ==
  \E c \in Conns :
    /\ Len(appended[c]) > MAX_CONVERSATION_MESSAGES
    /\ \E i, j \in 1..Len(appended[c]) :
          appended[c][i].role # appended[c][j].role

\* a cleanup() call sweeps the expired sessions in this step
Sweeping ==
  \E t \in Tasks : /\ cpc[t] \in {"cleanup_sleep", "cleanup_closing"}
                   /\ cpc'[t] = "idle"

PriorHistory(t) ==
  LET h == appended[xsid[t]] IN SubSeq(h, 1, Len(h) - 1)

\* C24: the agent of an execution with a session id receives the query
\* behind the context rendered from the history as it stood before the
\* query, and the bare query when there was no history
C24_ContextFromPriorHistory ==
  \A t \in Tasks :
    (xpc[t] = "running" /\ xsid[t] # None) =>
      LET h == appended[xsid[t]]
          prior == LastK(PriorHistory(t), MAX_CONVERSATION_MESSAGES)
      IN xquery[t] = contextual_query(get_context_string([messages |-> prior]),
                                      h[Len(h)].content)

\* the query task of the connection has not finished
Unfinished(c) == qpc[c] \in {"created", "running"}

\* C25: the handler of a connection reads the next message, and creates
\* and registers the next task, only when no task of the connection is
\* unfinished or registered, and an execution resets the manager's logger
\* only when no execution of the connection is running
C25_OneExecutionPerConnection ==
  [][\A c \in Conns :
       /\ (hpc[c] = "recv" /\ hpc'[c] # "recv") =>
            (~Unfinished(c) /\ c \notin connection_tasks
               /\ xpc[c] # "running")
       /\ (c \in connection_tasks' /\ c \notin connection_tasks) =>
            ~Unfinished(c)
       /\ execCount'[c] # execCount[c] => xpc[c] # "running"]_vars

\* the second execution of a connection runs, after the first one ended
C25_Witness ==
  \E c \in Conns :
    /\ execCount[c] = 2
    /\ xpc[c] = "running"
    /\ Len(qlog[c]) = 1
    /\ c \in connection_tasks

\* C26: while no task holds the initialization lock of a manager,
\* _is_initializing is false
C26_FlagClearWhenUnlocked ==
  \A m \in Managers :
    initialization_lock[m] = None => ~is_initializing[m]

\* the request of the task got its response
Responded(t) == rpc[t] \in {"responded_200", "responded_500", "http_error"}

\* C27: when the response of a request that created a manager is produced,
\* the manager holds no stack
C27_TeardownBeforeResponse ==
  \A t \in Conns :
    (Responded(t) /\ rpath[t] # None) => ~stack[ManagerOf(t)].set

\* requests whose manager had spawned its servers were answered: one with
\* the success response, one after a failed execution
C27_Witness ==
  \E t, u \in Conns :
    /\ rpc[t] = "responded_200"
    /\ spawnSets[ManagerOf(t)] > 0
    /\ rpc[u] = "responded_500"
    /\ xpc[u] \in {"timeout", "error"}

\* the request of the task is over
RestEnded(t) == Responded(t) \/ rpc[t] = "cancelled"

\* C30: a finished /chat/api/query request with a message_id has scheduled
\* exactly one completion call, "completed" when it returned the success
\* response and "failed" otherwise
C30_OneCompletionCall ==
  \A t \in Conns :
    (RestEnded(t) /\ rreq[t].endpoint = "query" /\ rreq[t].message_id) =>
      /\ Len(completions[t]) = 1
      /\ (completions[t][1] = "completed") = (rpc[t] = "responded_200")
      /\ completions[t][1] \in {"completed", "failed"}

\* C28: once the handler of a connection has terminated, ConnectionManager
\* holds neither its websocket in connection_sessions nor its session id in
\* connection_tasks
C28_NoEntryAfterHandler ==
  \A c \in Conns :
    hpc[c] \in {"returned", "reraised"} =>
      (c \notin connection_sessions /\ c \notin connection_tasks)

\* C29: a connection whose token was not verified has no session id, no
\* initialize() call of a manager of its own, no stack and no tool-server
\* process; one whose token was missing or rejected was accepted, sent one
\* error message and closed, and its handler has returned
C29_NothingBeforeVerification ==
  \A c \in Conns :
    /\ verified[c] # "verified" =>
         /\ c \notin connection_sessions
         /\ ipc[c] = "idle"
         /\ ~stack[ManagerOf(c)].set
         /\ spawnSets[ManagerOf(c)] = 0
         /\ \A p \in procs : p.by # ManagerOf(c)
    /\ verified[c] = "rejected" =>
         /\ wire[c] = <<"accept", "error", "close">>
         /\ hpc[c] = "returned"

\* a connection was rejected
C29_Witness ==
  \E c \in Conns :
    /\ verified[c] = "rejected"
    /\ hpc[c] = "returned"
    /\ sent[c] = {"error"}

====
